---------------------------- MODULE Spec2Model ----------------------------
(***************************************************************************)
(* Model of technical_como.py: the cached load of the joined readings,     *)
(* the Monitoring Dashboard page (filter cascade, trend graph, alarm       *)
(* standards table, styled historical tables) and the Upload New Data      *)
(* page (column validation, duplicate identifier check, append, cache      *)
(* clear).                                                                 *)
(*                                                                         *)
(* Representation of values.                                               *)
(*  - Text cells that are only compared and sorted (names, keys, units,    *)
(*    identifiers, values) are TLA+ strings; NameOrder lists them in the   *)
(*    order Python's sorted() gives.                                       *)
(*  - A status is the sequence of its characters, because color_status     *)
(*    lowercases it and searches it for substrings.                        *)
(*  - An instant is a record [day, sec]; the text '%Y-%m-%d' of an instant *)
(*    is its day.                                                          *)
(***************************************************************************)
EXTENDS Integers, Sequences, FiniteSets, TLC

VARIABLES
    tables,             \* the database: table name -> sequence of rows
    cache,              \* st.cache_data entry of load_data()
    page,               \* the page the script rendered last
    equipment_options, equipment_choice,
    component_options, component_choice,
    point_options, point_choices,
    df,                 \* the working set load_data() returned to the page
    filtered_df,        \* rows selected by the cascade
    fig,                \* traces of the trend graph
    alarm_df,           \* Alarm Standards table
    historical,         \* the styled historical tables, one per point
    target_table, uploaded_file, clicked, upload_outcome,
    val, style          \* a cell handed to color_status and its result

vars == <<tables, cache, page, df, equipment_options, equipment_choice,
          component_options, component_choice, point_options, point_choices,
          filtered_df, fig, alarm_df, historical,
          target_table, uploaded_file, clicked, upload_outcome, val, style>>

dashVars == <<df, equipment_options, equipment_choice, component_options,
              component_choice, point_options, point_choices,
              filtered_df, fig, alarm_df, historical>>

uploadVars == <<target_table, uploaded_file, clicked, upload_outcome>>

---------------------------------------------------------------------------
(* Null cells.                                                             *)

\* SQL NULL / None / NaN in a text cell.
NULL == "<null>"

\* A null status cell: a one-token sequence that is no character string.
NullStatus == <<NULL>>

---------------------------------------------------------------------------
(* Generic sequence helpers.                                               *)

Range(s) == {s[i] : i \in 1..Len(s)}

\* Number of positions of s holding x.
Count(s, x) == Cardinality({i \in 1..Len(s) : s[i] = x})

\* Same elements with the same multiplicities.
SameBag(s, t) ==
    /\ Len(s) = Len(t)
    /\ \A x \in Range(s) \cup Range(t) : Count(s, x) = Count(t, x)

---------------------------------------------------------------------------
(* color_status: characters, lower(), substring search.                    *)

UpperChars == <<"A","B","C","D","E","F","G","H","I","J","K","L","M",
                "N","O","P","Q","R","S","T","U","V","W","X","Y","Z">>
LowerChars == <<"a","b","c","d","e","f","g","h","i","j","k","l","m",
                "n","o","p","q","r","s","t","u","v","w","x","y","z">>

LowerChar(c) ==
    IF \E i \in 1..Len(UpperChars) : UpperChars[i] = c
    THEN LowerChars[CHOOSE i \in 1..Len(UpperChars) : UpperChars[i] = c]
    ELSE c

\* str.lower()
Lower(s) == [i \in 1..Len(s) |-> LowerChar(s[i])]

\* str(val): a null cell prints as "None".
Str(v) == IF v = NullStatus THEN <<"N","o","n","e">> ELSE v

IsPrefix(p, s) == Len(p) <= Len(s) /\ SubSeq(s, 1, Len(p)) = p

RECURSIVE Contains(_, _)
\* sub in s, scanning s from the left.
Contains(sub, s) ==
    IF Len(sub) > Len(s) THEN FALSE
    ELSE IF IsPrefix(sub, s) THEN TRUE
    ELSE Contains(sub, Tail(s))

LblExcellent == <<"e","x","c","e","l","l","e","n","t">>
LblAcceptable == <<"a","c","c","e","p","t","a","b","l","e">>
LblRequiresEvaluation == <<"r","e","q","u","i","r","e","s"," ",
                           "e","v","a","l","u","a","t","i","o","n">>
LblUnacceptable == <<"u","n">> \o LblAcceptable

StyleExcellent == "background-color: rgba(0, 128, 0, 0.7); color: white;"
StyleAcceptable == "background-color: rgba(50, 205, 50, 0.7); color: black;"
StyleRequiresEvaluation == "background-color: rgba(255, 165, 0, 0.7); color: black;"
StyleUnacceptable == "background-color: rgba(255, 0, 0, 0.7); color: white;"
StyleNone == ""

\* A variant that tests "unacceptable" before "acceptable".
color_status_unacceptable_first(v) ==
    LET val_lower == Lower(Str(v)) IN
    IF Contains(LblExcellent, val_lower) THEN StyleExcellent
    ELSE IF Contains(LblUnacceptable, val_lower) THEN StyleUnacceptable
    ELSE IF Contains(LblAcceptable, val_lower) THEN StyleAcceptable
    ELSE IF Contains(LblRequiresEvaluation, val_lower) THEN StyleRequiresEvaluation
    ELSE StyleNone

\* color_status(val): the style of the first label found in the lowercased
\* text, in the order of the if/elif chain.
color_status(v) ==
    LET val_lower == Lower(Str(v)) IN
    IF Contains(LblExcellent, val_lower) THEN StyleExcellent
    ELSE IF Contains(LblAcceptable, val_lower) THEN StyleAcceptable
    ELSE IF Contains(LblRequiresEvaluation, val_lower) THEN StyleRequiresEvaluation
    ELSE IF Contains(LblUnacceptable, val_lower) THEN StyleUnacceptable
    ELSE StyleNone

---------------------------------------------------------------------------
(* Rows of the database and of the working set.                            *)

\* A 'date' cell of the data table: a timestamp (kind "ts"), SQL NULL
\* (kind "null") or text that is no date (kind "text").
Ts(d, s) == [kind |-> "ts", day |-> d, sec |-> s]
NullDate == [kind |-> "null", day |-> 0, sec |-> 0]
BadDate == [kind |-> "text", day |-> 0, sec |-> 0]
NaT == [kind |-> "NaT", day |-> 0, sec |-> 0]

\* pd.to_datetime(cell, errors='coerce')
to_datetime(cell) == IF cell.kind = "ts" THEN cell ELSE NaT

\* Timestamp order: seconds since the first day.
Epoch(t) == t.day * 86400 + t.sec

\* A displayed date is the text of its fields: <<day>> for 'YYYY-MM-DD',
\* <<day, sec>> for 'YYYY-MM-DD HH:MM:SS'.
\* A variant of the format that keeps the time of day: '%Y-%m-%d %H:%M:%S'.
strftime_Ymd_HMS(t) == <<t.day, t.sec>>

\* Timestamp.strftime('%Y-%m-%d'): the text names the calendar day only.
strftime_Ymd(t) == <<t.day>>

\* Parsing a displayed 'YYYY-MM-DD[ HH:MM:SS]' text back to an instant.
parse_display(txt) ==
    IF Len(txt) = 2 THEN Ts(txt[1], txt[2]) ELSE Ts(txt[1], 0)

DataRow(id, tag, eq, comp, pt, date, value, unit, status, note, std) ==
    [identifier |-> id, equipment_tag_id |-> tag, equipment_name |-> eq,
     component |-> comp, point_measurement |-> pt, date |-> date,
     value |-> value, unit |-> unit, status |-> status, note |-> note,
     alarm_standard |-> std]

StdRow(std, ex, acc, req, unacc) ==
    [standard |-> std, excellent |-> ex, acceptable |-> acc,
     requires_evaluation |-> req, unacceptable |-> unacc]

\* One row of the SELECT of load_data: the d.* columns it names and the
\* four band columns of the joined alarm_standards row (NULL when none).
Joined(d, ex, acc, req, unacc) ==
    [equipment_tag_id |-> d.equipment_tag_id,
     equipment_name |-> d.equipment_name, component |-> d.component,
     point_measurement |-> d.point_measurement, date |-> d.date,
     value |-> d.value, unit |-> d.unit, status |-> d.status,
     note |-> d.note, alarm_standard |-> d.alarm_standard,
     excellent |-> ex, acceptable |-> acc,
     requires_evaluation |-> req, unacceptable |-> unacc]

\* The rows one data row contributes to
\* data d LEFT JOIN alarm_standards stds ON d.alarm_standard = stds.standard.
\* NULL = NULL is not true in SQL, so a NULL key matches nothing.
JoinRow(d, stds) ==
    LET m == SelectSeq(stds, LAMBDA s : /\ d.alarm_standard # NULL
                                        /\ s.standard = d.alarm_standard)
    IN  IF m = <<>> THEN <<Joined(d, NULL, NULL, NULL, NULL)>>
        ELSE [i \in 1..Len(m) |->
                Joined(d, m[i].excellent, m[i].acceptable,
                       m[i].requires_evaluation, m[i].unacceptable)]

RECURSIVE LeftJoin(_, _)
LeftJoin(data, stds) ==
    IF data = <<>> THEN <<>>
    ELSE JoinRow(Head(data), stds) \o LeftJoin(Tail(data), stds)

\* The query of load_data, rows in storage order.
read_sql(tbls) ==
    LeftJoin(SelectSeq(tbls["data"], LAMBDA d : d.value # NULL),
             tbls["alarm_standards"])

\* df['date'] = pd.to_datetime(df['date'], errors='coerce')
coerce_dates(rows) ==
    [i \in 1..Len(rows) |-> [rows[i] EXCEPT !.date = to_datetime(@)]]

\* load_data(): query, coerce the dates, drop the rows whose date is NaT.
load_data(tbls) ==
    SelectSeq(coerce_dates(read_sql(tbls)), LAMBDA r : r.date # NaT)

---------------------------------------------------------------------------
(* sorted(), unique(), sort_values(), drop_duplicates().                   *)

\* The names of the model in the order of Python's string comparison.
NameOrder == <<"Bearing", "Fan-2", "Motor", "Pump-1", "Temp", "Vibration-X">>

Rank(n) == CHOOSE i \in 1..Len(NameOrder) : NameOrder[i] = n

RECURSIVE unique(_)
\* Series.unique() / DataFrame.drop_duplicates(): first occurrences, in order.
unique(s) ==
    IF s = <<>> THEN <<>>
    ELSE LET init == unique(SubSeq(s, 1, Len(s) - 1))
             x == s[Len(s)]
         IN  IF x \in Range(init) THEN init ELSE Append(init, x)

\* x placed in the sorted list s after every element not greater than it.
InsertName(x, s) ==
    LET k == Cardinality({i \in 1..Len(s) : Rank(s[i]) <= Rank(x)})
    IN  SubSeq(s, 1, k) \o <<x>> \o SubSeq(s, k + 1, Len(s))

RECURSIVE sorted(_)
\* sorted(list of names)
sorted(s) ==
    IF s = <<>> THEN <<>>
    ELSE InsertName(s[Len(s)], sorted(SubSeq(s, 1, Len(s) - 1)))

\* Series.dropna()
dropna(s) == SelectSeq(s, LAMBDA x : x # NULL)

Column(rows, c) == [i \in 1..Len(rows) |-> rows[i][c]]

\* A variant without the sorted(): the candidates in order of appearance.
options_unsorted(rows, c) == unique(dropna(Column(rows, c)))

\* sorted(df[c].dropna().unique())
options(rows, c) == sorted(unique(dropna(Column(rows, c))))

\* Row r placed in the date-sorted list s, behind the rows it ties with.
InsertByDate(r, s, ascending) ==
    LET k == Cardinality({i \in 1..Len(s) :
                 IF ascending THEN Epoch(s[i].date) <= Epoch(r.date)
                 ELSE Epoch(s[i].date) >= Epoch(r.date)})
    IN  SubSeq(s, 1, k) \o <<r>> \o SubSeq(s, k + 1, Len(s))

RECURSIVE sort_values(_, _)
\* DataFrame.sort_values(by="date", ascending=...); rows with equal dates
\* keep their relative order.
sort_values(rows, ascending) ==
    IF rows = <<>> THEN <<>>
    ELSE InsertByDate(rows[Len(rows)],
                      sort_values(SubSeq(rows, 1, Len(rows) - 1), ascending),
                      ascending)

---------------------------------------------------------------------------
(* The Monitoring Dashboard page.                                          *)

\* st.selectbox(options=...): one of the options, None when there is none.
selectbox(opts) == IF opts = <<>> THEN {NULL} ELSE Range(opts)

\* st.multiselect(options=...): any subset of the options.
multiselect(opts) == SUBSET Range(opts)

\* df[df[c] == v]; a null cell equals nothing, and nothing equals None.
filter_eq(rows, c, v) ==
    SelectSeq(rows, LAMBDA r : r[c] # NULL /\ v # NULL /\ r[c] = v)

\* A variant that keeps every row of the component.
isin_all(rows, c, vs) == rows

\* df[df[c].isin(vs)]
isin(rows, c, vs) == SelectSeq(rows, LAMBDA r : r[c] \in vs)

\* The list a collection of points is iterated in by sorted(...).
RECURSIVE set_to_seq(_)
set_to_seq(S) ==
    IF S = {} THEN <<>>
    ELSE LET x == CHOOSE y \in S : \A z \in S : Rank(y) <= Rank(z)
         IN  <<x>> \o set_to_seq(S \ {x})

\* A text put together from pieces is the sequence of its pieces.
\* A variant that names a trace "{point} ({unit})".
trace_name_with_unit(rows, p) ==
    <<p, " (", (filter_eq(rows, "point_measurement", p))[1].unit, ")">>

\* The name of the trace of point p: the value of the color column.
trace_name(rows, p) == <<p>>

\* px.line(plot_df, x="date", y="value", color="point_measurement"): one
\* trace per value of the color column, in order of first appearance, named
\* by that value, holding its rows in the order of plot_df.

px_line(plot_df) ==
    LET names == unique(Column(plot_df, "point_measurement"))
    IN  [i \in 1..Len(names) |->
            LET g == filter_eq(plot_df, "point_measurement", names[i])
            IN  [name |-> trace_name(plot_df, names[i]),
                 x |-> Column(g, "date"), y |-> Column(g, "value")]]

\* filtered_df[alarm_cols]
alarm_cols(r) ==
    [point_measurement |-> r.point_measurement,
     equipment_tag_id |-> r.equipment_tag_id,
     alarm_standard |-> r.alarm_standard, excellent |-> r.excellent,
     acceptable |-> r.acceptable,
     requires_evaluation |-> r.requires_evaluation,
     unacceptable |-> r.unacceptable, unit |-> r.unit]

\* A variant without drop_duplicates().
alarm_table_no_dedup(rows) == [i \in 1..Len(rows) |-> alarm_cols(rows[i])]

\* filtered_df[alarm_cols].drop_duplicates()
alarm_table(rows) == unique([i \in 1..Len(rows) |-> alarm_cols(rows[i])])

\* point_df[hist_cols] with the date formatted.
hist_cols(r) ==
    [date |-> strftime_Ymd(r.date), value |-> r.value, unit |-> r.unit,
     status |-> r.status, note |-> r.note]

\* A variant that leaves out the rows color_status gives no style.
historical_styled_only(rows, p) ==
    LET point_df == filter_eq(rows, "point_measurement", p)
        sorted_df == SelectSeq(sort_values(point_df, FALSE),
                               LAMBDA r : color_status(r.status) # StyleNone)
    IN  [point |-> p,
         rows |-> [i \in 1..Len(sorted_df) |-> hist_cols(sorted_df[i])],
         styles |-> [i \in 1..Len(sorted_df) |->
                        color_status(sorted_df[i].status)]]

\* The historical table of one point: filter, sort descending, format the
\* date, style the status column with color_status.
historical_table(rows, p) ==
    LET point_df == filter_eq(rows, "point_measurement", p)
        sorted_df == sort_values(point_df, FALSE)
    IN  [point |-> p,
         rows |-> [i \in 1..Len(sorted_df) |-> hist_cols(sorted_df[i])],
         styles |-> [i \in 1..Len(sorted_df) |->
                        color_status(sorted_df[i].status)]]

\* st.file_uploader returned None.
NoFile == [present |-> FALSE, ext |-> "", cols |-> {}, rows |-> <<>>]

NoCache == [valid |-> FALSE, df |-> <<>>]

\* What load_data() returns under st.cache_data: the cached frame while the
\* entry is valid, else the result of running the query.
cached_load(c, tbls) == IF c.valid THEN c.df ELSE load_data(tbls)

\* The script run on the dashboard page when the working set is empty:
\* the warning, then st.stop().
RenderNoData ==
    /\ cached_load(cache, tables) = <<>>
    /\ cache' = [valid |-> TRUE, df |-> <<>>]
    /\ page' = "Monitoring Dashboard"
    /\ df' = <<>>
    /\ equipment_options' = <<>> /\ equipment_choice' = NULL
    /\ component_options' = <<>> /\ component_choice' = NULL
    /\ point_options' = <<>> /\ point_choices' = {}
    /\ filtered_df' = <<>> /\ fig' = <<>> /\ alarm_df' = <<>>
    /\ historical' = <<>>
    /\ target_table' = "data" /\ uploaded_file' = NoFile
    /\ clicked' = FALSE /\ upload_outcome' = "none"
    /\ UNCHANGED <<tables, val, style>>

\* One run of the script on the dashboard page with a non-empty working
\* set: the three widgets, and the display area when points are chosen.
RenderDashboard ==
    LET d == cached_load(cache, tables)
        eq_opts == options(d, "equipment_name")
    IN
    /\ d # <<>>
    /\ \E e \in selectbox(eq_opts) :
        LET filtered_by_eq == filter_eq(d, "equipment_name", e)
            comp_opts == options(filtered_by_eq, "component")
        IN
        \E c \in selectbox(comp_opts) :
            LET component_df == filter_eq(filtered_by_eq, "component", c)
                pt_opts == options(component_df, "point_measurement")
            IN
            \E P \in multiselect(pt_opts) :
                LET f == IF P # {}
                         THEN isin(component_df, "point_measurement", P)
                         ELSE <<>>
                    pts == set_to_seq(P)
                IN
                /\ cache' = [valid |-> TRUE, df |-> d]
                /\ page' = "Monitoring Dashboard"
                /\ df' = d
                /\ equipment_options' = eq_opts /\ equipment_choice' = e
                /\ component_options' = comp_opts /\ component_choice' = c
                /\ point_options' = pt_opts /\ point_choices' = P
                /\ filtered_df' = f
                /\ fig' = px_line(sort_values(f, TRUE))
                /\ alarm_df' = alarm_table(f)
                /\ historical' = [i \in 1..Len(pts) |->
                                     historical_table(f, pts[i])]
    /\ target_table' = "data" /\ uploaded_file' = NoFile
    /\ clicked' = FALSE /\ upload_outcome' = "none"
    /\ UNCHANGED <<tables, val, style>>

\* The ttl of st.cache_data(ttl=600) runs out.
CacheExpire ==
    /\ cache.valid
    /\ cache' = NoCache
    /\ UNCHANGED <<tables, page, dashVars, uploadVars, val, style>>

---------------------------------------------------------------------------
(* The Upload New Data page.                                               *)

table_options == <<"data", "alarm_standards", "equipment", "alarm">>

\* The columns SELECT * FROM <table> LIMIT 0 reports. The script names the
\* columns of data and alarm_standards it reads; the columns of the other
\* two tables are the database's and are stood for by one key column.
db_cols(t) ==
    CASE t = "data" ->
           {"identifier", "equipment_tag_id", "equipment_name", "component",
            "point_measurement", "date", "value", "unit", "status", "note",
            "alarm_standard"}
      [] t = "alarm_standards" ->
           {"standard", "excellent", "acceptable", "requires_evaluation",
            "unacceptable"}
      [] t = "equipment" -> {"equipment_tag_id"}
      [] OTHER -> {"alarm_id"}

\* A variant with no unique key for any table.
unique_key_none(t) == NULL

\* unique_key: set for the 'data' table only.
unique_key(t) == IF t = "data" THEN "identifier" ELSE NULL

\* uploaded_file.name.endswith('.csv') / '.xlsx'
supported(f) == f.ext \in {".csv", ".xlsx"}

\* upload_cols_set != db_cols_set
column_mismatch(f, t) == f.cols # db_cols(t)

\* upload_df[unique_key].dropna().tolist()
upload_ids(f, k) == dropna(Column(f.rows, k))

\* SELECT key FROM table WHERE key IN :ids
existing_ids(tbl, k, ids) ==
    {tbl[i][k] : i \in {j \in 1..Len(tbl) : tbl[j][k] \in Range(ids)}}

\* duplicate_ids: the ids of the file that the table already holds.
duplicate_ids(f, t, tbls) ==
    LET k == unique_key(t) IN
    IF k # NULL /\ k \in f.cols
    THEN LET ids == upload_ids(f, k)
         IN  IF ids # <<>>
             THEN SelectSeq(ids, LAMBDA id : id \in existing_ids(tbls[t], k, ids))
             ELSE <<>>
    ELSE <<>>

\* upload_df.to_sql(target_table, if_exists='append')
to_sql(tbls, t, f) == [tbls EXCEPT ![t] = @ \o f.rows]

\* st.cache_data.clear(): what the cache is after a successful append.
cache_after_append(c) == NoCache

\* The outcome of the handler of the button for file f and table t when the
\* database accepts the append (db_ok) or raises (not db_ok).
upload_result(f, t, tbls, db_ok) ==
    IF ~f.present THEN "no file"
    ELSE IF ~supported(f) THEN "unsupported file type"
    ELSE IF column_mismatch(f, t) THEN "column mismatch"
    ELSE IF duplicate_ids(f, t, tbls) # <<>> THEN "duplicate identifier"
    ELSE IF ~db_ok THEN "error"
    ELSE "success"

---------------------------------------------------------------------------
(* Bounded inputs.                                                         *)

\* Rows of the data table a run starts with, at most.
MaxInitRows == 3
\* Rows of an uploaded file, at most.
MaxFileRows == 2
\* Rows of the four tables together once uploads have run.
MaxDbRows == 3
\* Pieces a status text handed to color_status is made of, at most.
MaxPieces == 3

SeqsUpTo(S, n) == UNION {[1..k -> S] : k \in 0..n}

StExcellent == <<"E","x","c","e","l","l","e","n","t">>
StUnacceptable == <<"U","n","a","c","c","e","p","t","a","b","l","e">>
StRequiresEvaluation == <<"R","e","q","u","i","r","e","s"," ",
                          "E","v","a","l","u","a","t","i","o","n">>
StAcceptableUpper == <<"A","C","C","E","P","T","A","B","L","E">>
StNormal == <<"N","o","r","m","a","l">>

\* The two readings of the scenario of the specification, and variations.
R1 == DataRow("ID1", "T1", "Pump-1", "Bearing", "Vibration-X", Ts(1, 0),
              "2.1", "mm/s", StExcellent, NULL, "ISO-A")
R2 == DataRow("ID2", "T1", "Pump-1", "Bearing", "Vibration-X", Ts(2, 0),
              "5.9", "mm/s", StUnacceptable, "-", "ISO-A")
\* as R2 in the alarm columns, from another tag and 30 s later
R3 == DataRow("ID3", "T2", "Pump-1", "Bearing", "Vibration-X", Ts(2, 30),
              "5.9", "mm/s", StNormal, "-", "ISO-A")
\* another point, of a standard no alarm_standards row has
R4 == DataRow("ID4", "T1", "Pump-1", "Bearing", "Temp", Ts(1, 0),
              "40", "C", StRequiresEvaluation, "-", "NOSTD")
\* another equipment with a component of the same name
R5 == DataRow("ID5", "T3", "Fan-2", "Bearing", "Vibration-X", Ts(3, 0),
              "1.0", "in/s", StAcceptableUpper, NULL, NULL)
\* null identifier, component and status
R6 == DataRow(NULL, "T1", "Pump-1", NULL, "Temp", Ts(1, 0),
              "41", "C", NullStatus, NULL, NULL)
\* null point, the identifier of R1
R7 == DataRow("ID1", "T1", "Pump-1", "Motor", NULL, Ts(2, 0),
              "7", "A", StNormal, NULL, "ISO-A")
\* null equipment
R8 == DataRow("ID8", "T3", NULL, "Bearing", "Vibration-X", Ts(1, 0),
              "3", "mm/s", StNormal, NULL, "ISO-A")
\* a date that does not parse
R9 == DataRow("ID9", "T1", "Pump-1", "Bearing", "Vibration-X", BadDate,
              "3", "mm/s", StExcellent, NULL, "ISO-A")
\* a null value
R10 == DataRow("ID10", "T1", "Pump-1", "Bearing", "Vibration-X", Ts(1, 0),
               NULL, "mm/s", StExcellent, NULL, "ISO-A")

DataPool == {R1, R2, R3, R4, R5, R6, R7, R8, R9, R10}

SA == StdRow("ISO-A", "< 2.8", "2.8 - 4.5", "4.5 - 7.1", "> 7.1")
\* a second row under the key of SA
SA2 == StdRow("ISO-A", "< 1.8", "1.8 - 2.8", "2.8 - 4.5", "> 4.5")
SB == StdRow("ISO-B", "< 60", "60 - 80", "80 - 95", "> 95")

\* The alarm_standards table a run starts with: one row per standard.
StdInits == {<<>>, <<SB, SA>>}

EmptyTables == [t \in Range(table_options) |-> <<>>]

\* The dashboard variables before the page has run.
DashBlank ==
    /\ df = <<>>
    /\ equipment_options = <<>> /\ equipment_choice = NULL
    /\ component_options = <<>> /\ component_choice = NULL
    /\ point_options = <<>> /\ point_choices = {}
    /\ filtered_df = <<>> /\ fig = <<>> /\ alarm_df = <<>>
    /\ historical = <<>>

UploadBlank ==
    /\ target_table = "data" /\ uploaded_file = NoFile
    /\ clicked = FALSE /\ upload_outcome = "none"

\* The files offered to the uploader.
File(e, c, q) == [present |-> TRUE, ext |-> e, cols |-> c, rows |-> q]

\* The rows q under the header c: cells of absent columns are dropped,
\* cells of added columns hold "x".
Reshape(q, c) ==
    [i \in 1..Len(q) |->
        [k \in c |-> IF k \in DOMAIN q[i] THEN q[i][k] ELSE "x"]]

UploadDataPool == {R1, R6}
UploadStdPool == {SA, SA2}
Exts == {".csv", ".xlsx", ".CSV"}

\* The header of table t, with a column added, with a column missing.
Headers(t) ==
    {db_cols(t), db_cols(t) \cup {"comment"}}
    \cup {db_cols(t) \ {k} : k \in {"note", "unacceptable"} \cap db_cols(t)}

FileRows(t) ==
    CASE t = "data" -> SeqsUpTo(UploadDataPool, MaxFileRows)
      [] t = "alarm_standards" -> SeqsUpTo(UploadStdPool, MaxFileRows)
      [] OTHER -> SeqsUpTo({[k \in db_cols(t) |-> "x"]}, MaxFileRows)

\* Well-formed .csv files for each table; and one data row under every
\* header and extension.
Files ==
    {NoFile}
    \cup UNION {{File(".csv", db_cols(t), q) : q \in FileRows(t)} :
                t \in Range(table_options)}
    \cup {File(e, c, Reshape(<<R1>>, c)) : e \in Exts, c \in Headers("data")}

RECURSIVE TotalRows(_, _)
\* The number of rows of the tables named in ts.
TotalRows(tbls, ts) ==
    IF ts = <<>> THEN 0 ELSE Len(tbls[Head(ts)]) + TotalRows(tbls, Tail(ts))

---------------------------------------------------------------------------
(* The Upload page: actions.                                               *)

\* A run of the script on the Upload page without the button pressed.
OpenUploadPage ==
    /\ page' = "Upload New Data"
    /\ target_table' = "data" /\ uploaded_file' = NoFile
    /\ clicked' = FALSE /\ upload_outcome' = "none"
    /\ df' = <<>>
    /\ equipment_options' = <<>> /\ equipment_choice' = NULL
    /\ component_options' = <<>> /\ component_choice' = NULL
    /\ point_options' = <<>> /\ point_choices' = {}
    /\ filtered_df' = <<>> /\ fig' = <<>> /\ alarm_df' = <<>>
    /\ historical' = <<>>
    /\ UNCHANGED <<tables, cache, val, style>>

\* A run with "3. Upload and Add Data" pressed, for the table t and the
\* file f the widgets hold: the checks, the append, the cache clear.
\* db_ok is whether the database calls succeed; a failing database is
\* drawn only where it decides the outcome.
ClickUpload ==
    \E t \in Range(table_options), f \in Files, db_ok \in BOOLEAN :
        LET r == upload_result(f, t, tables, db_ok) IN
        /\ TotalRows(tables, table_options) + Len(f.rows) <= MaxDbRows
        /\ ~db_ok => r = "error"
        /\ page' = "Upload New Data"
        /\ target_table' = t /\ uploaded_file' = f
        /\ clicked' = TRUE
        /\ upload_outcome' = r
        /\ tables' = IF r = "success" THEN to_sql(tables, t, f) ELSE tables
        /\ cache' = IF r = "success" THEN cache_after_append(cache) ELSE cache
        /\ df' = <<>>
        /\ equipment_options' = <<>> /\ equipment_choice' = NULL
        /\ component_options' = <<>> /\ component_choice' = NULL
        /\ point_options' = <<>> /\ point_choices' = {}
        /\ filtered_df' = <<>> /\ fig' = <<>> /\ alarm_df' = <<>>
        /\ historical' = <<>>
        /\ UNCHANGED <<val, style>>

---------------------------------------------------------------------------
(* The specifications.                                                     *)

\* A fresh deployment: empty tables, nothing cached, no page run yet.
Init ==
    /\ tables = EmptyTables
    /\ cache = NoCache
    /\ page = "none"
    /\ DashBlank /\ UploadBlank
    /\ val = NullStatus /\ style = StyleNone

Next ==
    \/ OpenUploadPage
    \/ ClickUpload
    \/ RenderNoData
    \/ RenderDashboard
    \/ CacheExpire

Spec == Init /\ [][Next]_vars

\* The dashboard over a database that already holds readings.
InitDashboard ==
    /\ \E q \in SeqsUpTo(DataPool, MaxInitRows), st \in StdInits :
          tables = [EmptyTables EXCEPT !["data"] = q,
                                       !["alarm_standards"] = st]
    /\ cache = NoCache
    /\ page = "none"
    /\ DashBlank /\ UploadBlank
    /\ val = NullStatus /\ style = StyleNone

NextDashboard ==
    \/ RenderNoData
    \/ RenderDashboard
    \/ CacheExpire

SpecDashboard == InitDashboard /\ [][NextDashboard]_vars

\* color_status applied to status texts put together from pieces.
Pieces == {StExcellent, StAcceptableUpper, StRequiresEvaluation,
           StUnacceptable, StNormal, <<"U","N">>, <<" ">>}

RECURSIVE Flatten(_)
Flatten(q) == IF q = <<>> THEN <<>> ELSE Head(q) \o Flatten(Tail(q))

StatusInputs ==
    {NullStatus} \cup {Flatten(q) : q \in SeqsUpTo(Pieces, MaxPieces)}

InitClassifier ==
    /\ tables = EmptyTables
    /\ cache = NoCache
    /\ page = "none"
    /\ DashBlank /\ UploadBlank
    /\ val \in StatusInputs
    /\ style = "pending"

\* Styler.applymap(color_status) on one cell.
ApplyStyle ==
    /\ style = "pending"
    /\ style' = color_status(val)
    /\ UNCHANGED <<tables, cache, page, dashVars, uploadVars, val>>

NextClassifier == ApplyStyle

SpecClassifier == InitClassifier /\ [][NextClassifier]_vars

---------------------------------------------------------------------------
(* The claims.                                                             *)

OnDashboard == page = "Monitoring Dashboard"

\* The rows of the working set the selection (e, c, P) names.
Matching(rows, e, c, P) ==
    SelectSeq(rows, LAMBDA r : /\ r.equipment_name = e
                               /\ r.component = c
                               /\ r.point_measurement \in P)

\* C1: the final filtered subset is exactly the readings of the working
\* set whose equipment is the chosen one, whose component is the chosen one
\* and whose point is among the chosen points; it is empty when no point is
\* chosen and when the chosen component has no reading under the equipment.
C1_FinalSubset ==
    OnDashboard =>
        /\ filtered_df = Matching(df, equipment_choice, component_choice,
                                  point_choices)
        /\ point_choices = {} => filtered_df = <<>>
        /\ (\A i \in 1..Len(df) :
               ~(/\ df[i].equipment_name = equipment_choice
                 /\ df[i].component = component_choice))
           => filtered_df = <<>>

\* C1 witness: a selection that keeps some readings of the chosen
\* component and leaves others out.
C1_Witness ==
    /\ OnDashboard
    /\ filtered_df # <<>>
    /\ \E i \in 1..Len(df) :
          /\ df[i].equipment_name = equipment_choice
          /\ df[i].component = component_choice
          /\ df[i].point_measurement \notin point_choices
    /\ \E i \in 1..Len(df) : df[i].equipment_name \notin {equipment_choice, NULL}

StrictlySorted(s) == \A i \in 1..Len(s) - 1 : Rank(s[i]) < Rank(s[i + 1])

\* C2: for an equipment present in the working set, the component
\* candidates are the distinct non-null components of its rows, sorted
\* without repeats; the point candidates are the distinct non-null points of
\* the rows of the chosen equipment and component, sorted (none when there
\* is no component to choose).
C2_Candidates ==
    (OnDashboard /\ equipment_choice # NULL) =>
        /\ StrictlySorted(component_options)
        /\ Range(component_options) =
              {df[i].component : i \in {j \in 1..Len(df) :
                   df[j].equipment_name = equipment_choice}} \ {NULL}
        /\ StrictlySorted(point_options)
        /\ Range(point_options) =
              {df[i].point_measurement : i \in {j \in 1..Len(df) :
                   /\ df[j].equipment_name = equipment_choice
                   /\ component_choice # NULL
                   /\ df[j].component = component_choice}} \ {NULL}

\* C2 witness: two components under the equipment, listed against their
\* order of appearance, and two points under the component.
C2_Witness ==
    /\ OnDashboard
    /\ Len(component_options) = 2
    /\ Len(point_options) = 2
    /\ df[1].component = component_options[2]

\* The tiers in the order color_status tests them.
TierOrder ==
    <<[label |-> LblExcellent, style |-> StyleExcellent],
      [label |-> LblAcceptable, style |-> StyleAcceptable],
      [label |-> LblRequiresEvaluation, style |-> StyleRequiresEvaluation],
      [label |-> LblUnacceptable, style |-> StyleUnacceptable]>>

\* lbl occurs in s, letter case ignored.
Occurs(lbl, s) ==
    \E i \in 0..(Len(s) - Len(lbl)) :
        \A j \in 1..Len(lbl) : LowerChar(s[i + j]) = lbl[j]

Hits(v) ==
    IF v = NullStatus THEN {}
    ELSE {k \in 1..Len(TierOrder) : Occurs(TierOrder[k].label, v)}

\* C3: a status gets the tier of the earliest label, in the order
\* excellent, acceptable, requires evaluation, unacceptable, that it
\* contains (letter case ignored); a null status and one containing no label
\* get no styling.
C3_FirstMatchWins ==
    style # "pending" =>
        IF Hits(val) = {} THEN style = StyleNone
        ELSE style = TierOrder[CHOOSE k \in Hits(val) :
                                  \A m \in Hits(val) : k <= m].style

\* C3 witness: a status containing the labels of tiers 2, 3 and 4 was
\* styled.
C3_Witness ==
    /\ style # "pending"
    /\ Hits(val) = {2, 3, 4}

\* C4: a reading whose status is the canonical label of a tier, in any
\* letter case, is styled with that tier in the historical table.
C4_CanonicalLabelStyled ==
    OnDashboard =>
        \A t \in 1..Len(historical) :
            \A i \in 1..Len(historical[t].rows) :
                \A k \in 1..Len(TierOrder) :
                    LET st == historical[t].rows[i].status IN
                    (st # NullStatus /\ Lower(st) = TierOrder[k].label)
                        => historical[t].styles[i] = TierOrder[k].style

RECURSIVE Orderings(_)
\* The orderings of a set of indices, as sequences.
Orderings(S) ==
    IF S = {} THEN {<<>>}
    ELSE UNION {{<<x>> \o q : q \in Orderings(S \ {x})} : x \in S}

IndexPermutations(n) == Orderings(1..n)

\* The rows of the final subset of point p.
PointRows(p) == SelectSeq(filtered_df, LAMBDA r : r.point_measurement = p)

\* The columns of the historical table, the date left as the instant.
Shown(r) == <<r.value, r.unit, r.status, r.note>>

\* C5: the historical tables hold every reading of the final subset exactly
\* once, whatever its style, and nothing else; in each table the timestamps
\* descend.
C5_HistoricalPermutation ==
    OnDashboard =>
        /\ {historical[t].point : t \in 1..Len(historical)} = point_choices
        /\ Len(historical) = Cardinality(point_choices)
        /\ \A i \in 1..Len(filtered_df) :
               filtered_df[i].point_measurement \in point_choices
        /\ \A t \in 1..Len(historical) :
              LET h == historical[t]
                  src == PointRows(h.point)
              IN  /\ Len(h.rows) = Len(src)
                  /\ \E f \in IndexPermutations(Len(src)) :
                        /\ \A i \in 1..Len(src) :
                              /\ <<h.rows[i].value, h.rows[i].unit,
                                   h.rows[i].status, h.rows[i].note>>
                                     = Shown(src[f[i]])
                              /\ h.rows[i].date[1] = src[f[i]].date.day
                        /\ \A i \in 1..Len(src) - 1 :
                              Epoch(src[f[i]].date) >= Epoch(src[f[i + 1]].date)

\* C5 witness: a table of two readings of different days, one styled and
\* one not.
C5_Witness ==
    /\ OnDashboard
    /\ \E t \in 1..Len(historical) :
          /\ Len(historical[t].rows) >= 2
          /\ historical[t].rows[1].date # historical[t].rows[2].date
          /\ \E i, j \in 1..Len(historical[t].styles) :
                /\ historical[t].styles[i] = StyleNone
                /\ historical[t].styles[j] # StyleNone

\* The label "{point} ({unit})".
LabelWithUnit(p, u) == <<p, " (", u, ")">>

PointsOf(rows) == {rows[i].point_measurement : i \in 1..Len(rows)}

\* One series per point of the final subset, each holding the readings of
\* its point in ascending order of timestamp.
SeriesPerPoint(with_unit) ==
    /\ Len(fig) = Cardinality(PointsOf(filtered_df))
    /\ \A p \in PointsOf(filtered_df) :
          \E t \in 1..Len(fig) :
              LET src == PointRows(p) IN
              /\ \E u \in {src[i].unit : i \in 1..Len(src)} :
                    fig[t].name = IF with_unit THEN LabelWithUnit(p, u)
                                  ELSE <<p>>
              /\ Len(fig[t].x) = Len(src)
              /\ Len(fig[t].y) = Len(src)
              /\ \E f \in IndexPermutations(Len(src)) :
                    \A i \in 1..Len(src) :
                        /\ fig[t].x[i] = src[f[i]].date
                        /\ fig[t].y[i] = src[f[i]].value
              /\ \A i \in 1..Len(src) - 1 :
                    Epoch(fig[t].x[i]) <= Epoch(fig[t].x[i + 1])

Tuple7(r) ==
    <<r.point_measurement, r.alarm_standard, r.excellent, r.acceptable,
      r.requires_evaluation, r.unacceptable, r.unit>>

\* The eight columns of the Alarm Standards table.
Tuple8(r) ==
    <<r.point_measurement, r.equipment_tag_id, r.alarm_standard,
      r.excellent, r.acceptable, r.requires_evaluation, r.unacceptable,
      r.unit>>

FirstIndex(s, x) ==
    CHOOSE i \in 1..Len(s) : s[i] = x /\ \A j \in 1..(i - 1) : s[j] # x

\* out lists the distinct elements of src once each, in order of first
\* occurrence.
DistinctInOrder(out, src) ==
    /\ Range(out) = Range(src)
    /\ \A i, j \in 1..Len(out) : out[i] = out[j] => i = j
    /\ \A i, j \in 1..Len(out) :
          i < j => FirstIndex(src, out[i]) < FirstIndex(src, out[j])

\* C7 as stated: the alarm table lists the distinct (point, alarm standard,
\* four bands, unit) tuples of the final subset once each, in order of first
\* occurrence.
C7_DistinctSevenTuples ==
    OnDashboard =>
        DistinctInOrder([i \in 1..Len(alarm_df) |-> Tuple7(alarm_df[i])],
                        [i \in 1..Len(filtered_df) |-> Tuple7(filtered_df[i])])

\* C7 amended: the alarm table lists the distinct (point, equipment tag,
\* alarm standard, four bands, unit) tuples of the final subset once each, in
\* order of first occurrence.
C7_DistinctEightTuples ==
    OnDashboard =>
        DistinctInOrder([i \in 1..Len(alarm_df) |-> Tuple8(alarm_df[i])],
                        [i \in 1..Len(filtered_df) |-> Tuple8(filtered_df[i])])

\* C7 witness: two rows of one alarm standard that differ in another column
\* are both listed, and a repeated tuple is listed once.
C7_Witness ==
    /\ OnDashboard
    /\ Len(alarm_df) < Len(filtered_df)
    /\ \E i, j \in 1..Len(alarm_df) :
          /\ i # j
          /\ alarm_df[i].alarm_standard = alarm_df[j].alarm_standard

\* The displayed dates of a historical table, parsed back.
Reparsed(h) == [i \in 1..Len(h.rows) |-> parse_display(h.rows[i].date)]

\* C9 as stated: parsing the displayed timestamps of a historical table
\* gives back the instants of the readings of its point.
C9_RoundTripToSecond ==
    OnDashboard =>
        \A t \in 1..Len(historical) :
            LET src == PointRows(historical[t].point) IN
            SameBag(Reparsed(historical[t]),
                    [i \in 1..Len(src) |-> src[i].date])

\* C9 amended: parsing the displayed timestamps of a historical table gives
\* back the calendar days of the readings of its point, at midnight; the
\* time of day is not displayed.
C9_RoundTripToDay ==
    OnDashboard =>
        \A t \in 1..Len(historical) :
            LET src == PointRows(historical[t].point) IN
            SameBag(Reparsed(historical[t]),
                    [i \in 1..Len(src) |-> Ts(src[i].date.day, 0)])

\* C9 witness: a historical table shows a reading taken at a time of day
\* other than midnight.
C9_Witness ==
    /\ OnDashboard
    /\ \E t \in 1..Len(historical) :
          LET src == PointRows(historical[t].point) IN
          /\ Len(historical[t].rows) = 2
          /\ \E i, j \in 1..Len(src) :
                /\ src[i].date.day = src[j].date.day
                /\ src[i].date.sec # src[j].date.sec

\* The columns of a reading that load_data selects from the data table.
Reading(r) ==
    <<r.equipment_tag_id, r.equipment_name, r.component,
      r.point_measurement, r.date, r.value, r.unit, r.status, r.note,
      r.alarm_standard>>

\* C8: the working set holds every stored reading with a non-null value and
\* a date that parses exactly once; a reading whose alarm standard matches
\* no alarm_standards row has blank band fields; no row of the working set
\* has a null value or no date.
C8_EachReadingOnce ==
    OnDashboard =>
        LET stored == SelectSeq(tables["data"],
                        LAMBDA d : d.value # NULL /\ d.date.kind = "ts")
            stds == tables["alarm_standards"]
        IN  /\ SameBag([i \in 1..Len(df) |-> Reading(df[i])],
                       [i \in 1..Len(stored) |-> Reading(stored[i])])
            /\ \A i \in 1..Len(df) :
                  /\ df[i].value # NULL
                  /\ df[i].date.kind = "ts"
                  /\ (\A j \in 1..Len(stds) :
                         stds[j].standard # df[i].alarm_standard)
                     => /\ df[i].excellent = NULL
                        /\ df[i].acceptable = NULL
                        /\ df[i].requires_evaluation = NULL
                        /\ df[i].unacceptable = NULL

\* The checks claim C10 names, for file f and table t: a file is supplied,
\* its column set is the table's, and for 'data' none of its non-null
\* identifiers is in the table.
ChecksPass(f, t, tbls) ==
    /\ f.present
    /\ f.cols = db_cols(t)
    /\ t = "data" =>
          \A i \in 1..Len(f.rows) :
              f.rows[i].identifier # NULL =>
                  \A j \in 1..Len(tbls["data"]) :
                      tbls["data"][j].identifier # f.rows[i].identifier

\* C10: a press of the upload button changes the tables or the cache only
\* when the checks pass, and then it appends every row of the file to the
\* selected table alone and clears the cache; the tables change in no other
\* way.
C10_UploadGated ==
    [][/\ tables' # tables =>
            /\ clicked'
            /\ ChecksPass(uploaded_file', target_table', tables)
            /\ tables' = [tables EXCEPT ![target_table'] =
                                            @ \o uploaded_file'.rows]
            /\ cache' = NoCache
       /\ (clicked' /\ ~clicked) =>
            /\ ~ChecksPass(uploaded_file', target_table', tables) =>
                  tables' = tables /\ cache' = cache
            /\ cache' # cache =>
                  /\ cache' = NoCache
                  /\ tables' = [tables EXCEPT ![target_table'] =
                                                  @ \o uploaded_file'.rows]
            /\ upload_outcome' = "success" =>
                  /\ cache' = NoCache
                  /\ tables' = [tables EXCEPT ![target_table'] =
                                                  @ \o uploaded_file'.rows]
      ]_vars

\* C10 witness: a file of two rows was appended to a table that held a row,
\* with a valid cache entry cleared on the way.
C10_Witness ==
    /\ page = "Upload New Data"
    /\ upload_outcome = "success"
    /\ Len(uploaded_file.rows) = MaxFileRows
    /\ target_table = "alarm_standards"
    /\ tables["alarm_standards"] = uploaded_file.rows
    /\ tables["data"] # <<>>
    /\ cache = NoCache

=============================================================================
